---- MODULE Spec2Model ----
(***************************************************************************)
(* Credential store, session gate, admin directory operations and          *)
(* generation history of the Tasty Voice Generator (src/login-system.py).  *)
(*                                                                         *)
(* One Streamlit session is one entry of every per-session variable; the   *)
(* durable credential file data/users.pkl is the only state the sessions   *)
(* share.  Every action is one run of main() that handles one widget       *)
(* event.  A key that is absent from st.session_state is modelled by the   *)
(* value the code treats it as: logged_in, is_admin and show_admin absent  *)
(* are FALSE, username absent is None, a history key absent is <<>>.       *)
(***************************************************************************)
EXTENDS Naturals, Sequences, FiniteSets

VARIABLES
    file,            \* data/users.pkl: [state, users]
    now,             \* time.time(), in ticks
    accounts,        \* result of get_elevenlabs_accounts(): set of account names
    session_keys,    \* which of "users", "users_dict" are in st.session_state
    users,           \* st.session_state.users
    users_dict,      \* st.session_state.users_dict
    logged_in,       \* st.session_state.logged_in
    username,        \* st.session_state.username
    is_admin,        \* st.session_state.is_admin
    show_admin,      \* st.session_state.show_admin
    hist,            \* st.session_state["recent_generations_<user>"]
    wrote,           \* how the file write of the last run ended, "none"
                     \* when the run opened no file for writing
    last             \* what the last handler run returned and surfaced

vars == <<file, now, accounts, session_keys, users, users_dict, logged_in,
          username, is_admin, show_admin, hist, wrote, last>>

session_vars == <<logged_in, username, is_admin, show_admin>>
store_vars == <<file, now, session_keys, users, users_dict>>

----------------------------------------------------------------------------
(* Bounds *)

MaxClock == 1
MaxHist == 1
\* records a history grows to where the recent lists are checked
MaxShown == 7
\* records created where two sessions work on the directory at once
MaxCreates == 2
\* records a session holds where the growth of the histories is checked
MaxLog == 2

Sessions == {1, 2}
Usernames == {"admin", "bob", "carol"}
Passwords == {"admin123", "pw123"}
\* what a text field of a form can hold: a name or nothing
FormNames == Usernames \cup {""}
FormPasswords == Passwords \cup {""}
None == "None"
Kinds == {"tts", "voice_conversion"}
WriteOutcomes == {"ok", "open_failed", "dump_failed"}
\* a provider call: a 2xx response with its body, or a RequestException
\* (a non-2xx response with its error body; a network error is handled
\* by the same except clause)
Responses == {[ok |-> TRUE, content |-> "mp3"], [ok |-> TRUE, content |-> ""],
              [ok |-> FALSE, content |-> "detail"]}

\* audio bodies that tell the records of a history apart
Payloads == {"mp3", "ogg"}

EmptyStore == <<>>

\* what the create form holds when it is submitted: every complete form,
\* and one form for each way the handler rejects a form before it calls
\* create_user (passwords that differ, no username, no password)
CreateForms ==
    {f \in [u : FormNames, p : FormPasswords, c : FormPasswords,
             adm : BOOLEAN] :
       \/ f.u # "" /\ f.p # "" /\ f.c = f.p
       \/ ~f.adm /\ f.u = "bob" /\ f.p = "pw123" /\ f.c = ""
       \/ ~f.adm /\ f.u = "" /\ f.p = "pw123" /\ f.c = f.p
       \/ ~f.adm /\ f.u = "bob" /\ f.p = "" /\ f.c = f.p}

\* the outcomes of a file write a run has to consider: none when the
\* handler does not reach save_users
WritesOf(saves) == IF saves THEN WriteOutcomes ELSE {"ok"}

----------------------------------------------------------------------------
(* Credential store functions *)

\* hashlib.sha256(password.encode()).hexdigest(), tabulated on FormPasswords
hash_password(password) ==
    CASE password = "admin123" ->
           "240be518fabd2724ddb6f04eeb1da5967448d7e831c08c8fa822809f74c720a9"
      [] password = "pw123" ->
           "23d47445adfb8991789b459b6ba1b974d727d310aa9d80b7c2875b9430c0ba25"
      [] password = "" ->
           "e3b0c44298fc1c149afbf4c8996fb92427ae41e4649b934ca495991b7852b855"

verify_password(stored_hash, provided_password) ==
    stored_hash = hash_password(provided_password)

\* login_user without the password check
login_user_any_password(u, password, usersD) == u \in DOMAIN usersD

login_user(u, password, usersD) ==
    /\ u \in DOMAIN usersD
    /\ verify_password(usersD[u].password_hash, password)

\* with open(users_file, "wb") as f: pickle.dump(users, f)
\* open() may fail (file untouched) or dump may fail after open() truncated it
write_file(f, usersD, wr) ==
    CASE wr = "ok" -> [state |-> "ok", users |-> usersD]
      [] wr = "open_failed" -> f
      [] wr = "dump_failed" -> [state |-> "corrupt", users |-> EmptyStore]

\* save_users that keeps the dict in the session and skips the file
save_users_session_only(usersD, f, wr) == [users_dict |-> usersD, file |-> f]

\* save_users(users): the new users_dict and the new file; nothing is raised
save_users(usersD, f, wr) ==
    [users_dict |-> usersD, file |-> write_file(f, usersD, wr)]

user_record(u, password, adm, t) ==
    [username |-> u, password_hash |-> hash_password(password),
     is_admin |-> adm, created_at |-> t]

\* users[username] = {...}
store_put(usersD, u, rec) ==
    [x \in DOMAIN usersD \cup {u} |-> IF x = u THEN rec ELSE usersD[x]]

\* del users[username]
store_del(usersD, u) ==
    [x \in DOMAIN usersD \ {u} |-> usersD[x]]

\* create_user storing the password as given instead of its digest
create_user_plain(u, password, adm, usersD, t) ==
    IF u \in DOMAIN usersD
    THEN [ok |-> FALSE, msg |-> "Username already exists",
          users |-> usersD, saved |-> FALSE]
    ELSE [ok |-> TRUE, msg |-> "User created successfully",
          users |-> store_put(usersD, u,
                      [username |-> u, password_hash |-> password,
                       is_admin |-> adm, created_at |-> t]),
          saved |-> TRUE]

\* create_user without the check for an existing username
create_user_overwrite(u, password, adm, usersD, t) ==
    [ok |-> TRUE, msg |-> "User created successfully",
     users |-> store_put(usersD, u, user_record(u, password, adm, t)),
     saved |-> TRUE]

\* create_user: (success, message), the dict after the call, whether
\* save_users was called
create_user(u, password, adm, usersD, t) ==
    IF u \in DOMAIN usersD
    THEN [ok |-> FALSE, msg |-> "Username already exists",
          users |-> usersD, saved |-> FALSE]
    ELSE [ok |-> TRUE, msg |-> "User created successfully",
          users |-> store_put(usersD, u, user_record(u, password, adm, t)),
          saved |-> TRUE]

\* delete_user with the existence check before the self-deletion check
delete_user_exists_first(u, usersD, current_user) ==
    IF u \notin DOMAIN usersD
    THEN [ok |-> FALSE, msg |-> "User doesn't exist",
          users |-> usersD, saved |-> FALSE]
    ELSE IF u = current_user
    THEN [ok |-> FALSE, msg |-> "You cannot delete your own account",
          users |-> usersD, saved |-> FALSE]
    ELSE [ok |-> TRUE, msg |-> "deleted successfully",
          users |-> store_del(usersD, u), saved |-> TRUE]

\* delete_user without the existence check (users.pop(username, None))
delete_user_pop(u, usersD, current_user) ==
    IF u = current_user
    THEN [ok |-> FALSE, msg |-> "You cannot delete your own account",
          users |-> usersD, saved |-> FALSE]
    ELSE [ok |-> TRUE, msg |-> "deleted successfully",
          users |-> store_del(usersD, u), saved |-> TRUE]

\* delete_user that reports success and saves but never removes the record
delete_user_keeps(u, usersD, current_user) ==
    IF u = current_user
    THEN [ok |-> FALSE, msg |-> "You cannot delete your own account",
          users |-> usersD, saved |-> FALSE]
    ELSE IF u \notin DOMAIN usersD
    THEN [ok |-> FALSE, msg |-> "User doesn't exist",
          users |-> usersD, saved |-> FALSE]
    ELSE [ok |-> TRUE, msg |-> "deleted successfully",
          users |-> usersD, saved |-> TRUE]

\* delete_user: (success, message), the dict after the call, whether
\* save_users was called
delete_user(u, usersD, current_user) ==
    IF u = current_user
    THEN [ok |-> FALSE, msg |-> "You cannot delete your own account",
          users |-> usersD, saved |-> FALSE]
    ELSE IF u \notin DOMAIN usersD
    THEN [ok |-> FALSE, msg |-> "User doesn't exist",
          users |-> usersD, saved |-> FALSE]
    ELSE [ok |-> TRUE, msg |-> "deleted successfully",
          users |-> store_del(usersD, u), saved |-> TRUE]

default_username == "admin"
default_password == "admin123"

\* init_authentication adding the default admin to the records it loaded
init_authentication_merges(keys, ud, f, t, mkdir_ok, rd, wr) ==
    IF "users_dict" \in keys
    THEN [raised |-> FALSE, warned |-> FALSE, ret |-> ud, has_dict |-> TRUE,
          users_dict |-> ud, file |-> f, wrote |-> "none"]
    ELSE IF ~mkdir_ok
    THEN [raised |-> TRUE, warned |-> FALSE, ret |-> EmptyStore,
          has_dict |-> FALSE, users_dict |-> ud, file |-> f, wrote |-> "none"]
    ELSE LET admin_user == user_record(default_username, default_password,
                                       TRUE, t)
             loaded == IF f.state = "ok" /\ rd THEN f.users ELSE EmptyStore
             d == store_put(loaded, default_username, admin_user)
         IN [raised |-> FALSE, warned |-> f.state # "absent" /\ loaded = EmptyStore,
             ret |-> d, has_dict |-> TRUE, users_dict |-> d,
             file |-> write_file(f, d, wr), wrote |-> wr]

\* init_authentication without the check for a store already in the session
init_authentication_reload(keys, ud, f, t, mkdir_ok, rd, wr) ==
    IF ~mkdir_ok
    THEN [raised |-> TRUE, warned |-> FALSE, ret |-> EmptyStore,
          has_dict |-> FALSE, users_dict |-> ud, file |-> f, wrote |-> "none"]
    ELSE IF f.state = "ok" /\ rd
    THEN [raised |-> FALSE, warned |-> FALSE, ret |-> f.users,
          has_dict |-> TRUE, users_dict |-> f.users, file |-> f,
          wrote |-> "none"]
    ELSE LET admin_user == user_record(default_username, default_password,
                                       TRUE, t)
             d == store_put(EmptyStore, default_username, admin_user)
         IN [raised |-> FALSE, warned |-> f.state # "absent", ret |-> d,
             has_dict |-> TRUE, users_dict |-> d,
             file |-> write_file(f, d, wr), wrote |-> wr]

\* init_authentication(): the returned dict, the session's users_dict, the
\* file after the call and how its write ended.  mkdir_ok: data_dir.mkdir succeeded; rd: the
\* file could be opened and unpickled; wr: outcome of the write of the
\* default store.
init_authentication(keys, ud, f, t, mkdir_ok, rd, wr) ==
    IF "users_dict" \in keys
    THEN [raised |-> FALSE, warned |-> FALSE, ret |-> ud, has_dict |-> TRUE,
          users_dict |-> ud, file |-> f, wrote |-> "none"]
    ELSE IF ~mkdir_ok
    THEN [raised |-> TRUE, warned |-> FALSE, ret |-> EmptyStore,
          has_dict |-> FALSE, users_dict |-> ud, file |-> f, wrote |-> "none"]
    ELSE IF f.state = "ok" /\ rd
    THEN [raised |-> FALSE, warned |-> FALSE, ret |-> f.users,
          has_dict |-> TRUE, users_dict |-> f.users, file |-> f,
          wrote |-> "none"]
    ELSE LET admin_user == user_record(default_username, default_password,
                                       TRUE, t)
             d == store_put(EmptyStore, default_username, admin_user)
         IN [raised |-> FALSE, warned |-> f.state # "absent", ret |-> d,
             has_dict |-> TRUE, users_dict |-> d,
             file |-> write_file(f, d, wr), wrote |-> wr]

----------------------------------------------------------------------------
(* Generation history *)

\* generate_voice / convert_voice: response.content, or None on a
\* RequestException (raise_for_status included)
\* generate_voice without response.raise_for_status()
generate_voice_unchecked(resp) == resp.content

generate_voice(resp) == IF resp.ok THEN resp.content ELSE None
convert_voice(resp) == IF resp.ok THEN resp.content ELSE None

\* Python truth value of bytes-or-None
truthy(audio_data) == audio_data # None /\ audio_data # ""

\* the record of the first tab, pasted into the second with its type
generation_record_tts(kind, audio_data) ==
    [type |-> "tts", audio_data |-> audio_data]

generation_record(kind, audio_data) ==
    [type |-> kind, audio_data |-> audio_data]

\* an insert at the head of the list
history_append_front(h, u, rec) == [h EXCEPT ![u] = <<rec>> \o @]

\* st.session_state[user_gen_key].append(record), creating the list first
history_append(h, u, rec) == [h EXCEPT ![u] = Append(@, rec)]

\* a cleanup that looks up a key no history is stored under
history_purge_wrong_key(h, u) == h

\* del st.session_state[user_gen_key] when the key is there
history_purge(h, u) == [h EXCEPT ![u] = <<>>]

\* the "Recent Generations" list of a tab: the records of its kind, the
\* last RecentLimit of them, most recent first
RecentLimit == 5
\* the slice [:n] in the place of [-n:]
LastN_first(q, n) == IF Len(q) <= n THEN q ELSE SubSeq(q, 1, n)
LastN(q, n) == IF Len(q) <= n THEN q ELSE SubSeq(q, Len(q) - n + 1, Len(q))
Reversed(q) == [i \in 1..Len(q) |-> q[Len(q) + 1 - i]]
recent_generations(h, kind) ==
    LET of_kind(gen) == gen.type = kind
    IN Reversed(LastN(SelectSeq(h, of_kind), RecentLimit))

\* number of records a session holds, over all its history keys
HistTotal(h) == Len(h["admin"]) + Len(h["bob"]) + Len(h["carol"])

----------------------------------------------------------------------------
(* Results surfaced by a run *)

Outcome(op, ok, msg) == [op |-> op, ok |-> ok, msg |-> msg]

----------------------------------------------------------------------------
Init ==
    /\ file = [state |-> "absent", users |-> EmptyStore]
    /\ now = 0
    /\ accounts \in {{}, {"Default Account"}}
    /\ session_keys = [s \in Sessions |-> {}]
    /\ users = [s \in Sessions |-> EmptyStore]
    /\ users_dict = [s \in Sessions |-> EmptyStore]
    /\ logged_in = [s \in Sessions |-> FALSE]
    /\ username = [s \in Sessions |-> None]
    /\ is_admin = [s \in Sessions |-> FALSE]
    /\ show_admin = [s \in Sessions |-> FALSE]
    /\ hist = [s \in Sessions |-> [u \in Usernames |-> <<>>]]
    /\ wrote = "none"
    /\ last = Outcome("start", TRUE, "")

----------------------------------------------------------------------------
(* main(): which page a run renders *)

OnLoginPage(s) == ~logged_in[s]
\* a main() that opens the panel for whoever is logged in
OnAdminPanel_any_login(s) == logged_in[s]

OnAdminPanel(s) == logged_in[s] /\ show_admin[s] /\ is_admin[s]
\* the main view up to the sidebar: st.stop() when no account is configured
OnMainView(s) == logged_in[s] /\ ~(show_admin[s] /\ is_admin[s])
                   /\ accounts # {}

\* st.session_state.users = init_authentication(), and what the call
\* leaves in the session and the file; an exception ends the run
CallInit(s, mkdir_ok, rd, wr) ==
    LET r == init_authentication(session_keys[s], users_dict[s], file, now,
                                 mkdir_ok, rd, wr)
    IN IF r.raised
       THEN /\ last' = Outcome("init", FALSE, "exception")
            /\ wrote' = "none"
            /\ UNCHANGED <<file, session_keys, users, users_dict>>
       ELSE /\ users' = [users EXCEPT ![s] = r.ret]
            /\ users_dict' = [users_dict EXCEPT ![s] = r.users_dict]
            /\ session_keys' = [session_keys EXCEPT
                                  ![s] = @ \cup {"users", "users_dict"}]
            /\ file' = r.file
            /\ wrote' = r.wrote
            /\ last' = Outcome("init", TRUE,
                               IF r.warned
                               THEN "Could not load users from file"
                               ELSE "")

\* show_login_page, first run of a session: "users" is not in the session
OpenLoginPage(s, mkdir_ok, rd, wr) ==
    /\ OnLoginPage(s)
    /\ "users" \notin session_keys[s]
    /\ CallInit(s, mkdir_ok, rd, wr)
    /\ UNCHANGED <<now, accounts, session_vars, hist>>

\* a login form that stores the submitted username before it checks it
Login_partial(s, u, password) ==
    /\ OnLoginPage(s)
    /\ "users" \in session_keys[s]
    /\ username' = [username EXCEPT ![s] = u]
    /\ IF login_user(u, password, users[s])
       THEN /\ logged_in' = [logged_in EXCEPT ![s] = TRUE]
            /\ is_admin' = [is_admin EXCEPT ![s] = users[s][u].is_admin]
            /\ last' = Outcome("login", TRUE, "Login successful! Redirecting...")
       ELSE /\ last' = Outcome("login", FALSE, "Invalid username or password")
            /\ UNCHANGED <<logged_in, is_admin>>
    /\ wrote' = "none"
    /\ UNCHANGED <<store_vars, accounts, show_admin, hist>>

\* a login form that caches the admin flag as set for whoever logs in
Login_grants_admin(s, u, password) ==
    /\ OnLoginPage(s)
    /\ "users" \in session_keys[s]
    /\ IF login_user(u, password, users[s])
       THEN /\ logged_in' = [logged_in EXCEPT ![s] = TRUE]
            /\ username' = [username EXCEPT ![s] = u]
            /\ is_admin' = [is_admin EXCEPT ![s] = TRUE]
            /\ last' = Outcome("login", TRUE, "Login successful! Redirecting...")
       ELSE /\ last' = Outcome("login", FALSE, "Invalid username or password")
            /\ UNCHANGED <<logged_in, username, is_admin>>
    /\ wrote' = "none"
    /\ UNCHANGED <<store_vars, accounts, show_admin, hist>>

\* a login form that never caches the admin flag of the record
Login_default_role(s, u, password) ==
    /\ OnLoginPage(s)
    /\ "users" \in session_keys[s]
    /\ IF login_user(u, password, users[s])
       THEN /\ logged_in' = [logged_in EXCEPT ![s] = TRUE]
            /\ username' = [username EXCEPT ![s] = u]
            /\ last' = Outcome("login", TRUE, "Login successful! Redirecting...")
       ELSE /\ last' = Outcome("login", FALSE, "Invalid username or password")
            /\ UNCHANGED <<logged_in, username>>
    /\ wrote' = "none"
    /\ UNCHANGED <<store_vars, accounts, is_admin, show_admin, hist>>

\* a login form that stamps the record of whoever logs in with the time
\* of the login
Login_touches_record(s, u, password) ==
    /\ OnLoginPage(s)
    /\ "users" \in session_keys[s]
    /\ IF login_user(u, password, users[s])
       THEN /\ logged_in' = [logged_in EXCEPT ![s] = TRUE]
            /\ username' = [username EXCEPT ![s] = u]
            /\ is_admin' = [is_admin EXCEPT ![s] = users[s][u].is_admin]
            /\ users' = [users EXCEPT ![s][u].created_at = now]
            /\ users_dict' = [users_dict EXCEPT ![s][u].created_at = now]
            /\ last' = Outcome("login", TRUE, "Login successful! Redirecting...")
       ELSE /\ last' = Outcome("login", FALSE, "Invalid username or password")
            /\ UNCHANGED <<logged_in, username, is_admin, users, users_dict>>
    /\ wrote' = "none"
    /\ UNCHANGED <<file, now, session_keys, accounts, show_admin, hist>>

\* show_login_page, the login form submitted
Login(s, u, password) ==
    /\ OnLoginPage(s)
    /\ "users" \in session_keys[s]
    /\ IF login_user(u, password, users[s])
       THEN /\ logged_in' = [logged_in EXCEPT ![s] = TRUE]
            /\ username' = [username EXCEPT ![s] = u]
            /\ is_admin' = [is_admin EXCEPT ![s] = users[s][u].is_admin]
            /\ last' = Outcome("login", TRUE, "Login successful! Redirecting...")
       ELSE /\ last' = Outcome("login", FALSE, "Invalid username or password")
            /\ UNCHANGED <<logged_in, username, is_admin>>
    /\ wrote' = "none"
    /\ UNCHANGED <<store_vars, accounts, show_admin, hist>>

\* a Control Panel button rendered for every logged-in user
ControlPanel_for_all(s) ==
    /\ OnMainView(s)
    /\ show_admin' = [show_admin EXCEPT ![s] = TRUE]
    /\ last' = Outcome("open_admin", TRUE, "")
    /\ wrote' = "none"
    /\ UNCHANGED <<store_vars, accounts, logged_in, username, is_admin, hist>>

\* sidebar: Control Panel, rendered for an admin only
ControlPanel(s) ==
    /\ OnMainView(s)
    /\ is_admin[s]
    /\ show_admin' = [show_admin EXCEPT ![s] = TRUE]
    /\ last' = Outcome("open_admin", TRUE, "")
    /\ wrote' = "none"
    /\ UNCHANGED <<store_vars, accounts, logged_in, username, is_admin, hist>>

\* an Exit that forgets to reset the cached role
Exit_keeps_role(s) ==
    /\ OnMainView(s)
    /\ logged_in' = [logged_in EXCEPT ![s] = FALSE]
    /\ username' = [username EXCEPT ![s] = None]
    /\ last' = Outcome("logout", TRUE, "")
    /\ wrote' = "none"
    /\ UNCHANGED <<store_vars, accounts, is_admin, show_admin, hist>>

\* sidebar: Exit
Exit(s) ==
    /\ OnMainView(s)
    /\ logged_in' = [logged_in EXCEPT ![s] = FALSE]
    /\ username' = [username EXCEPT ![s] = None]
    /\ is_admin' = [is_admin EXCEPT ![s] = FALSE]
    /\ last' = Outcome("logout", TRUE, "")
    /\ wrote' = "none"
    /\ UNCHANGED <<store_vars, accounts, show_admin, hist>>

\* a return that also drops the cached role
ReturnToMain_resets(s) ==
    /\ OnAdminPanel(s)
    /\ show_admin' = [show_admin EXCEPT ![s] = FALSE]
    /\ is_admin' = [is_admin EXCEPT ![s] = FALSE]
    /\ last' = Outcome("return", TRUE, "")
    /\ wrote' = "none"
    /\ UNCHANGED <<store_vars, accounts, logged_in, username, hist>>

\* show_admin_panel: Return to Voice Generator
ReturnToMain(s) ==
    /\ OnAdminPanel(s)
    /\ show_admin' = [show_admin EXCEPT ![s] = FALSE]
    /\ last' = Outcome("return", TRUE, "")
    /\ wrote' = "none"
    /\ UNCHANGED <<store_vars, accounts, logged_in, username, is_admin, hist>>

\* the call create_user(...) of a handler and what it leaves in the
\* session and the file; time.time() moves on with every record made
CreateUserCalled(s, u, password, adm) ==
    LET r == create_user(u, password, adm, users[s], now)
    IN \E wr \in WritesOf(r.saved) :
         LET sv == save_users(r.users, file, wr)
         IN /\ last' = Outcome("create_user", r.ok, r.msg)
            /\ users' = [users EXCEPT ![s] = r.users]
            /\ users_dict' = [users_dict EXCEPT
                                ![s] = IF r.saved THEN sv.users_dict ELSE @]
            /\ file' = IF r.saved THEN sv.file ELSE file
            /\ wrote' = IF r.saved THEN wr ELSE "none"
            /\ now' = IF r.saved THEN now + 1 ELSE now
            /\ UNCHANGED session_keys

\* the same call while the clock is below MaxClock
CallCreateUser(s, u, password, adm) ==
    /\ create_user(u, password, adm, users[s], now).saved => now < MaxClock
    /\ CreateUserCalled(s, u, password, adm)

\* the call delete_user(...) of a handler and what it leaves in the
\* session and the file
CallDeleteUser(s, u, current_user) ==
    LET r == delete_user(u, users[s], current_user)
    IN \E wr \in WritesOf(r.saved) :
         LET sv == save_users(r.users, file, wr)
         IN /\ last' = Outcome("delete_user", r.ok, r.msg)
            /\ users' = [users EXCEPT ![s] = r.users]
            /\ users_dict' = [users_dict EXCEPT
                                ![s] = IF r.saved THEN sv.users_dict ELSE @]
            /\ file' = IF r.saved THEN sv.file ELSE file
            /\ wrote' = IF r.saved THEN wr ELSE "none"
            /\ UNCHANGED <<now, session_keys>>

\* show_admin_panel: the create form submitted
AdminCreateRun(s, new_username, new_password, confirm_password, adm) ==
    /\ OnAdminPanel(s)
    /\ IF new_password # confirm_password
       THEN /\ last' = Outcome("create", FALSE, "Passwords do not match")
            /\ wrote' = "none"
            /\ UNCHANGED store_vars
       ELSE IF new_username = "" \/ new_password = ""
       THEN /\ last' = Outcome("create", FALSE,
                               "Username and password are required")
            /\ wrote' = "none"
            /\ UNCHANGED store_vars
       ELSE CreateUserCalled(s, new_username, new_password, adm)
    /\ UNCHANGED <<accounts, session_vars, hist>>

\* the same form while the clock is below MaxClock
AdminCreate(s, new_username, new_password, confirm_password, adm) ==
    /\ ( /\ new_password = confirm_password
         /\ new_username # "" /\ new_password # ""
         /\ create_user(new_username, new_password, adm, users[s], now).saved )
       => now < MaxClock
    /\ AdminCreateRun(s, new_username, new_password, confirm_password, adm)

\* show_admin_panel: the options of the delete selectbox
delete_options(s) == {u \in DOMAIN users[s] : u # username[s]}

\* a delete handler without the cleanup of the history
delete_cleanup_skipped(h, r, user_to_delete) == h

\* show_admin_panel, if delete_button: the history a session holds after
\* delete_user returned r for user_to_delete
delete_cleanup(h, r, user_to_delete) ==
    IF r.ok THEN history_purge(h, user_to_delete) ELSE h

\* show_admin_panel: the body of the delete form's handler
DeleteSubmitted(s, user_to_delete) ==
    /\ CallDeleteUser(s, user_to_delete, username[s])
    /\ hist' = [hist EXCEPT ![s] =
                  delete_cleanup(@, delete_user(user_to_delete, users[s],
                                                username[s]), user_to_delete)]
    /\ UNCHANGED <<accounts, session_vars>>

\* show_admin_panel: the delete form submitted with one of its options
AdminDelete(s, user_to_delete) ==
    /\ OnAdminPanel(s)
    /\ user_to_delete \in delete_options(s)
    /\ DeleteSubmitted(s, user_to_delete)

\* main view below the sidebar: get_voices_for_account returned no voice,
\* so the run stops before the tabs whatever widget started it
VoicesUnavailable(s) ==
    /\ OnMainView(s)
    /\ last' = Outcome("voices", FALSE, "Could not fetch voices")
    /\ wrote' = "none"
    /\ UNCHANGED <<store_vars, accounts, session_vars, hist>>

\* tab 1 (kind tts: GENERATE VOICE) and tab 2 (kind voice_conversion:
\* Convert Voice) pressed with a blank text / without an uploaded file
GenerateWithoutInput(s, kind) ==
    /\ OnMainView(s)
    /\ last' = Outcome(kind, FALSE, "Please provide input")
    /\ wrote' = "none"
    /\ UNCHANGED <<store_vars, accounts, session_vars, hist>>

\* st.error of generate_voice / convert_voice
ProviderError(kind) ==
    IF kind = "tts" THEN "Error generating voice" ELSE "Error converting voice"

\* tab 1 and tab 2: the button pressed with input, the provider answering
\* resp
GenerateRun(s, kind, resp) ==
    /\ OnMainView(s)
    /\ LET audio_data == IF kind = "tts" THEN generate_voice(resp)
                         ELSE convert_voice(resp)
       IN IF truthy(audio_data)
          THEN /\ hist' = [hist EXCEPT ![s] = history_append(@, username[s],
                                 generation_record(kind, audio_data))]
               /\ last' = Outcome(kind, TRUE, "")
          ELSE /\ last' = Outcome(kind, resp.ok,
                                  IF resp.ok THEN ""
                                  ELSE ProviderError(kind))
               /\ UNCHANGED hist
    /\ wrote' = "none"
    /\ UNCHANGED <<store_vars, accounts, session_vars>>

\* the same run while the session holds fewer than MaxHist records
Generate(s, kind, resp) ==
    /\ truthy(IF kind = "tts" THEN generate_voice(resp)
              ELSE convert_voice(resp)) => HistTotal(hist[s]) < MaxHist
    /\ GenerateRun(s, kind, resp)

\* a new browser session (a page reload): st.session_state starts empty
Reload(s) ==
    /\ session_keys[s] # {}
    /\ session_keys' = [session_keys EXCEPT ![s] = {}]
    /\ users' = [users EXCEPT ![s] = EmptyStore]
    /\ users_dict' = [users_dict EXCEPT ![s] = EmptyStore]
    /\ logged_in' = [logged_in EXCEPT ![s] = FALSE]
    /\ username' = [username EXCEPT ![s] = None]
    /\ is_admin' = [is_admin EXCEPT ![s] = FALSE]
    /\ show_admin' = [show_admin EXCEPT ![s] = FALSE]
    /\ hist' = [hist EXCEPT ![s] = [u \in Usernames |-> <<>>]]
    /\ wrote' = "none"
    /\ last' = Outcome("start", TRUE, "")
    /\ UNCHANGED <<file, now, accounts>>

\* one run of main() in session s, or a new session in its place
Next ==
    \E s \in {1} :
        \/ \E mkdir_ok \in BOOLEAN, rd \in BOOLEAN, wr \in WriteOutcomes :
               OpenLoginPage(s, mkdir_ok, rd, wr)
        \/ \E u \in FormNames, p \in FormPasswords : Login(s, u, p)
        \/ ControlPanel(s)
        \/ Exit(s)
        \/ ReturnToMain(s)
        \/ \E f \in CreateForms : AdminCreate(s, f.u, f.p, f.c, f.adm)
        \/ \E u \in Usernames : AdminDelete(s, u)
        \/ VoicesUnavailable(s)
        \/ \E kind \in Kinds : GenerateWithoutInput(s, kind)
        \/ \E kind \in Kinds, resp \in Responses : Generate(s, kind, resp)
        \/ Reload(s)

Spec == Init /\ [][Next]_vars

----------------------------------------------------------------------------
(* Two sessions open at once over the same file: the login page and the   *)
(* admin panel of each, with forms that are filled in completely          *)

NextTwo ==
    \E s \in Sessions :
        \/ \E mkdir_ok \in BOOLEAN, rd \in BOOLEAN, wr \in WriteOutcomes :
               OpenLoginPage(s, mkdir_ok, rd, wr)
        \/ \E u \in Usernames, p \in Passwords : Login(s, u, p)
        \/ ControlPanel(s)
        \/ Exit(s)
        \/ ReturnToMain(s)
        \/ \E u \in Usernames, p \in Passwords, adm \in BOOLEAN :
               AdminCreate(s, u, p, p, adm)
        \/ \E u \in Usernames : AdminDelete(s, u)

SpecTwo == Init /\ [][NextTwo]_vars

----------------------------------------------------------------------------
(* The credential store functions called on any store with any arguments *)

ApiRecords(u) == {user_record(u, p, a, 0) : p \in Passwords, a \in BOOLEAN}
ApiStores ==
    UNION {{st \in [D -> UNION {ApiRecords(u) : u \in D}] :
              \A u \in D : st[u].username = u} : D \in SUBSET Usernames}

InitApi ==
    /\ \E st \in ApiStores :
         /\ users = [s \in Sessions |-> IF s = 1 THEN st ELSE EmptyStore]
         /\ users_dict = users
         /\ file \in {[state |-> "absent", users |-> EmptyStore],
                      [state |-> "ok", users |-> st]}
    /\ now = 0
    /\ accounts = {"Default Account"}
    /\ session_keys = [s \in Sessions |->
                         IF s = 1 THEN {"users", "users_dict"} ELSE {}]
    /\ logged_in = [s \in Sessions |-> FALSE]
    /\ username = [s \in Sessions |-> None]
    /\ is_admin = [s \in Sessions |-> FALSE]
    /\ show_admin = [s \in Sessions |-> FALSE]
    /\ hist = [s \in Sessions |-> [u \in Usernames |-> <<>>]]
    /\ wrote = "none"
    /\ last = Outcome("start", TRUE, "")

ApiCreate(u, password, adm) ==
    /\ CallCreateUser(1, u, password, adm)
    /\ UNCHANGED <<accounts, session_vars, hist>>

ApiDelete(u, current_user) ==
    /\ CallDeleteUser(1, u, current_user)
    /\ UNCHANGED <<accounts, session_vars, hist>>

NextApi ==
    \/ \E u \in Usernames, p \in Passwords, adm \in BOOLEAN :
           ApiCreate(u, p, adm)
    \/ \E u \in Usernames, cur \in Usernames : ApiDelete(u, cur)

SpecApi == InitApi /\ [][NextApi]_vars

----------------------------------------------------------------------------
(* init_authentication called again in a session that has loaded its store *)

DefaultStore ==
    store_put(EmptyStore, default_username,
              user_record(default_username, default_password, TRUE, 0))

\* the session right after its first init_authentication made the default
\* store, however the write of it ended
InitLoaded ==
    /\ file \in {write_file([state |-> "absent", users |-> EmptyStore],
                             DefaultStore, wr) : wr \in WriteOutcomes}
    /\ now = 0
    /\ accounts = {"Default Account"}
    /\ session_keys = [s \in Sessions |->
                         IF s = 1 THEN {"users", "users_dict"} ELSE {}]
    /\ users = [s \in Sessions |-> IF s = 1 THEN DefaultStore ELSE EmptyStore]
    /\ users_dict = users
    /\ logged_in = [s \in Sessions |-> FALSE]
    /\ username = [s \in Sessions |-> None]
    /\ is_admin = [s \in Sessions |-> FALSE]
    /\ show_admin = [s \in Sessions |-> FALSE]
    /\ hist = [s \in Sessions |-> [u \in Usernames |-> <<>>]]
    /\ wrote = "none"
    /\ last = Outcome("start", TRUE, "")

ApiInit(mkdir_ok, rd, wr) ==
    /\ CallInit(1, mkdir_ok, rd, wr)
    /\ UNCHANGED <<now, accounts, session_vars, hist>>

NextLoaded ==
    \/ NextApi
    \/ \E mkdir_ok \in BOOLEAN, rd \in BOOLEAN, wr \in WriteOutcomes :
           ApiInit(mkdir_ok, rd, wr)

SpecLoaded == InitLoaded /\ [][NextLoaded]_vars

----------------------------------------------------------------------------
(* One logged-in user generating again and again: the recent lists *)

RecentStore ==
    store_put(store_put(EmptyStore, default_username,
                        user_record(default_username, default_password,
                                    TRUE, 0)),
              "bob", user_record("bob", "pw123", FALSE, 1))

InitRecent ==
    /\ file = [state |-> "ok", users |-> RecentStore]
    /\ now = 2
    /\ accounts = {"Default Account"}
    /\ session_keys = [s \in Sessions |->
                         IF s = 1 THEN {"users", "users_dict"} ELSE {}]
    /\ users = [s \in Sessions |-> IF s = 1 THEN RecentStore ELSE EmptyStore]
    /\ users_dict = users
    /\ \E u \in DOMAIN RecentStore :
         /\ logged_in = [s \in Sessions |-> s = 1]
         /\ username = [s \in Sessions |-> IF s = 1 THEN u ELSE None]
         /\ is_admin = [s \in Sessions |-> s = 1 /\ RecentStore[u].is_admin]
    /\ show_admin = [s \in Sessions |-> FALSE]
    /\ hist = [s \in Sessions |-> [u \in Usernames |-> <<>>]]
    /\ wrote = "none"
    /\ last = Outcome("login", TRUE, "Login successful! Redirecting...")

NextRecent ==
    \E kind \in Kinds, body \in Payloads :
        /\ Len(hist[1][username[1]]) < MaxShown
        /\ GenerateRun(1, kind, [ok |-> TRUE, content |-> body])

SpecRecent == InitRecent /\ [][NextRecent]_vars

----------------------------------------------------------------------------
(* Two sessions that loaded the default store and work on the directory  *)
(* at once, every write of the file succeeding                           *)

InitShared ==
    /\ file = [state |-> "ok", users |-> DefaultStore]
    /\ now = 0
    /\ accounts = {"Default Account"}
    /\ session_keys = [s \in Sessions |-> {"users", "users_dict"}]
    /\ users = [s \in Sessions |-> DefaultStore]
    /\ users_dict = users
    /\ logged_in = [s \in Sessions |-> FALSE]
    /\ username = [s \in Sessions |-> None]
    /\ is_admin = [s \in Sessions |-> FALSE]
    /\ show_admin = [s \in Sessions |-> FALSE]
    /\ hist = [s \in Sessions |-> [u \in Usernames |-> <<>>]]
    /\ wrote = "none"
    /\ last = Outcome("init", TRUE, "")

NextShared ==
    \E s \in Sessions :
        \/ \E u \in Usernames, p \in Passwords : Login(s, u, p)
        \/ ControlPanel(s)
        \/ Exit(s)
        \/ ReturnToMain(s)
        \/ \E u \in Usernames, p \in Passwords, adm \in BOOLEAN :
               /\ now < MaxCreates
               /\ AdminCreateRun(s, u, p, p, adm)
               /\ wrote' \in {"ok", "none"}
        \/ \E u \in Usernames :
               /\ AdminDelete(s, u)
               /\ wrote' \in {"ok", "none"}

SpecShared == InitShared /\ [][NextShared]_vars

----------------------------------------------------------------------------
(* One session in which users log in and out, generate, and an admin     *)
(* deletes and creates users, every write of the file succeeding         *)

InitHistory ==
    /\ file = [state |-> "ok", users |-> RecentStore]
    /\ now = Cardinality(DOMAIN RecentStore)
    /\ accounts = {"Default Account"}
    /\ session_keys = [s \in Sessions |->
                         IF s = 1 THEN {"users", "users_dict"} ELSE {}]
    /\ users = [s \in Sessions |-> IF s = 1 THEN RecentStore ELSE EmptyStore]
    /\ users_dict = users
    /\ logged_in = [s \in Sessions |-> FALSE]
    /\ username = [s \in Sessions |-> None]
    /\ is_admin = [s \in Sessions |-> FALSE]
    /\ show_admin = [s \in Sessions |-> FALSE]
    /\ hist = [s \in Sessions |-> [u \in Usernames |-> <<>>]]
    /\ wrote = "none"
    /\ last = Outcome("init", TRUE, "")

NextHistory ==
    \/ \E u \in Usernames, p \in Passwords : Login(1, u, p)
    \/ ControlPanel(1)
    \/ Exit(1)
    \/ ReturnToMain(1)
    \/ \E u \in Usernames, p \in Passwords, adm \in BOOLEAN :
           /\ now < Cardinality(DOMAIN RecentStore) + MaxCreates
           /\ AdminCreateRun(1, u, p, p, adm)
           /\ wrote' \in {"ok", "none"}
    \/ \E u \in Usernames :
           /\ AdminDelete(1, u)
           /\ wrote' \in {"ok", "none"}
    \/ \E kind \in Kinds, resp \in Responses :
           /\ HistTotal(hist[1]) < MaxLog
           /\ GenerateRun(1, kind, resp)

SpecHistory == InitHistory /\ [][NextHistory]_vars

----------------------------------------------------------------------------
(* Claims *)

InvalidLogin == Outcome("login", FALSE, "Invalid username or password")

\* C1: a submitted login succeeds exactly when the username is a key of
\* the store and the digest of the password equals the stored
\* password_hash; an unknown username and a wrong password both fail and
\* surface the same single error at the login form.
C1_LoginIffKnownAndDigestMatches ==
    [][last'.op = "login" =>
         \A s \in Sessions, u \in FormNames, p \in FormPasswords :
           Login(s, u, p) =>
             LET matches == /\ u \in DOMAIN users[s]
                            /\ users[s][u].password_hash = hash_password(p)
             IN /\ login_user(u, p, users[s]) <=> matches
                /\ last'.ok <=> matches
                /\ ~matches => last' = InvalidLogin]_vars

\* a failed login was surfaced in a session whose store holds a created
\* user beside the default one: both kinds of failure were possible
C1_Witness ==
    /\ last = InvalidLogin
    /\ ~logged_in[1]
    /\ Cardinality(DOMAIN users[1]) >= 2

\* C2: right after a successful create_user(u, p, ...) the store accepts
\* (u, p) and rejects (u, q) for every other password q, and no later
\* step that keeps u in the store changes which passwords it accepts
\* for u.
C2_CreatedPairVerifies ==
    [][\A s \in Sessions, u \in Usernames :
         /\ (last'.op = "create_user" /\ last'.ok) =>
              \A p \in Passwords, adm \in BOOLEAN :
                AdminCreate(s, u, p, p, adm) =>
                  /\ login_user(u, p, users'[s])
                  /\ \A q \in FormPasswords \ {p} :
                       ~login_user(u, q, users'[s])
         /\ (users'[s] # users[s] /\ u \in DOMAIN users[s]
               /\ u \in DOMAIN users'[s]) =>
              \A q \in FormPasswords :
                login_user(u, q, users'[s]) <=> login_user(u, q, users[s])]_vars

\* a user that only create_user can have made is logged in
C2_Witness ==
    /\ logged_in[1]
    /\ username[1] = "bob"
    /\ last.op = "login"
    /\ last.ok

\* C3: create_user with a username that is already a key of the store
\* returns (False, "Username already exists") and leaves every record,
\* the session's users_dict and the durable file as they were.
C3_DuplicateCreateFails ==
    [][\A u \in Usernames, p \in Passwords, adm \in BOOLEAN :
         (ApiCreate(u, p, adm) /\ u \in DOMAIN users[1]) =>
           /\ last' = Outcome("create_user", FALSE, "Username already exists")
           /\ users' = users
           /\ users_dict' = users_dict
           /\ file' = file]_vars

C3_Witness ==
    /\ last = Outcome("create_user", FALSE, "Username already exists")
    /\ users[1] # EmptyStore

SelfDeletion ==
    Outcome("delete_user", FALSE, "You cannot delete your own account")

\* C4: delete_user(u, users, u) returns the self-deletion error and changes
\* neither the store nor the file, whatever the store holds, also when u
\* is not a key of it.
C4_SelfDeletionAlwaysFails ==
    [][\A u \in Usernames :
         ApiDelete(u, u) =>
           /\ last' = SelfDeletion
           /\ users' = users
           /\ users_dict' = users_dict
           /\ file' = file]_vars

\* the self-deletion error on a store that holds no user at all
C4_Witness ==
    /\ last = SelfDeletion
    /\ users[1] = EmptyStore

NotFound == Outcome("delete_user", FALSE, "User doesn't exist")

\* C5: delete_user of a username that is not a key of the store and is not
\* the requesting user returns the not-found error and changes neither the
\* in-memory store nor the durable file.
C5_DeleteMissingFails ==
    [][\A u \in Usernames, cur \in Usernames :
         (ApiDelete(u, cur) /\ u # cur /\ u \notin DOMAIN users[1]) =>
           /\ last' = NotFound
           /\ users' = users
           /\ users_dict' = users_dict
           /\ file' = file]_vars

C5_Witness ==
    /\ last = NotFound
    /\ users[1] # EmptyStore

\* C6: a successful delete of u in the admin panel removes exactly the
\* record of u: u is no key of the store afterwards, no password logs u
\* in, every other record is as it was; and in a loaded session a
\* username only becomes a key of the store by a successful create of it.
C6_DeleteRemovesExactlyOne ==
    [][\A s \in Sessions, u \in Usernames :
         /\ (last'.op = "delete_user" /\ AdminDelete(s, u)) =>
              /\ last'.ok
              /\ u # username[s]
              /\ DOMAIN users'[s] = DOMAIN users[s] \ {u}
              /\ \A v \in DOMAIN users'[s] : users'[s][v] = users[s][v]
              /\ users_dict'[s] = users'[s]
              /\ \A q \in FormPasswords : ~login_user(u, q, users'[s])
         /\ ("users" \in session_keys[s] /\ u \notin DOMAIN users[s]
               /\ u \in DOMAIN users'[s]) =>
              \E p \in Passwords, adm \in BOOLEAN :
                AdminCreate(s, u, p, p, adm) /\ last'.ok]_vars

\* a delete succeeded and left the other records
C6_Witness ==
    /\ last.op = "delete_user"
    /\ last.ok
    /\ "bob" \notin DOMAIN users[1]
    /\ users[1] # EmptyStore

\* C7: when the delete form of the admin panel deletes u, the history this
\* session holds for u is empty afterwards, for both kinds and whatever it
\* held, and no other history changes; a delete_user that fails, for any
\* selection, leaves every history as it was.
C7_DeletePurgesHistory ==
    [][\A s \in Sessions, u \in Usernames :
         /\ (last'.op = "delete_user" /\ AdminDelete(s, u)) =>
              /\ hist'[s][u] = <<>>
              /\ \A k \in Kinds : recent_generations(hist'[s][u], k) = <<>>
              /\ \A v \in Usernames \ {u} : hist'[s][v] = hist[s][v]
              /\ \A o \in Sessions \ {s} : hist'[o] = hist[o]
         /\ OnAdminPanel(s) =>
              LET r == delete_user(u, users[s], username[s])
              IN ~r.ok => delete_cleanup(hist[s], r, u) = hist[s]]_vars

\* the admin panel is open and one of the users it can delete has a
\* history in this session
C7_Witness ==
    /\ OnAdminPanel(1)
    /\ \E u \in delete_options(1) : hist[1][u] # <<>>

\* C8: a session becomes logged in only by a login whose credentials
\* login_user accepts, with the submitted username and that record's
\* is_admin; a login attempt logs in exactly when login_user accepts,
\* and a rejected one changes no session field and surfaces the error.
C8_LoginTransition ==
    [][\A s \in Sessions :
         /\ (~logged_in[s] /\ logged_in'[s]) =>
              \E u \in FormNames, p \in FormPasswords :
                /\ login_user(u, p, users[s])
                /\ username'[s] = u
                /\ is_admin'[s] = users[s][u].is_admin
         /\ last'.op = "login" =>
              \A u \in FormNames, p \in FormPasswords :
                Login(s, u, p) =>
                  /\ ~logged_in[s]
                  /\ logged_in'[s] <=> login_user(u, p, users[s])
                  /\ ~login_user(u, p, users[s]) =>
                       /\ logged_in'[s] = logged_in[s]
                       /\ username'[s] = username[s]
                       /\ is_admin'[s] = is_admin[s]
                       /\ show_admin'[s] = show_admin[s]
                       /\ last' = InvalidLogin]_vars

\* a user without the admin flag is logged in
C8_Witness ==
    /\ logged_in[1]
    /\ ~is_admin[1]
    /\ username[1] \in DOMAIN users[1]
    /\ last.op = "login"

\* C9: every step that ends a login leaves logged_in false, username None,
\* is_admin false and show_admin false.
C9_LogoutResetsSession ==
    [][\A s \in Sessions :
         (logged_in[s] /\ ~logged_in'[s]) =>
           /\ username'[s] = None
           /\ ~is_admin'[s]
           /\ ~show_admin'[s]]_vars

\* an admin who had opened the panel in this session has logged out
C9_Witness ==
    /\ last.op = "logout"
    /\ ~logged_in[1]
    /\ file.state = "absent"
    /\ Cardinality(DOMAIN users[1]) >= 2

\* C10: show_admin is true only in a session that is logged in with
\* is_admin true, so the admin panel is never rendered for a normal role.
C10_AdminViewOnlyForAdmin ==
    \A s \in Sessions : show_admin[s] => (logged_in[s] /\ is_admin[s])

\* a normal user is logged in to the session in which an admin created
\* that user from the panel (the file was never written, so the store was
\* not loaded from it)
C10_Witness ==
    /\ logged_in[1]
    /\ ~is_admin[1]
    /\ username[1] = "bob"
    /\ file.state = "absent"

\* the session is logged in with the admin flag and the admin view is on
AdminViewActive(s) == logged_in[s] /\ is_admin[s] /\ show_admin[s]

\* C11: every step that adds a record to or removes one from the store of
\* a loaded session, and every submission of the create or the delete
\* form, is taken while the session is logged in, its is_admin flag is
\* true and show_admin is true; create_user and delete_user are called in
\* no other state.
C11_DirectoryOpsOnlyFromAdminView ==
    [][/\ \A s \in Sessions :
           /\ ("users" \in session_keys[s] /\ "users" \in session_keys'[s]
                 /\ users'[s] # users[s]) => AdminViewActive(s)
           /\ (last'.op \in {"create", "create_user"}
                 /\ \E f \in CreateForms : AdminCreate(s, f.u, f.p, f.c, f.adm))
                => AdminViewActive(s)
           /\ (last'.op = "delete_user"
                 /\ \E u \in Usernames : AdminDelete(s, u))
                => AdminViewActive(s)
       /\ last'.op \in {"create", "create_user", "delete_user"}
            => \E s \in Sessions : AdminViewActive(s)]_vars

\* an admin has created a user and deleted it again from the panel
C11_Witness ==
    /\ OnAdminPanel(1)
    /\ last.op = "delete_user"
    /\ last.ok
    /\ now = 1
    /\ Cardinality(DOMAIN users[1]) = 1

\* the positions of the records of a kind in a history, and the position
\* of the j-th newest of them
KindIdx(h, kind) == {i \in 1..Len(h) : h[i].type = kind}
NthNewest(h, kind, j) ==
    CHOOSE i \in KindIdx(h, kind) :
        Cardinality({x \in KindIdx(h, kind) : x > i}) = j - 1

\* C12: the recent list of the logged-in user for a kind has at most 5
\* records, as many as min(5, number of records of the kind); its j-th
\* entry is the j-th newest record of that kind in the user's history, so
\* it is empty when there is none.
C12_RecentListIsLastFiveNewestFirst ==
    \A s \in Sessions :
        logged_in[s] =>
          \A kind \in Kinds :
            LET h == hist[s][username[s]]
                r == recent_generations(h, kind)
                n == Cardinality(KindIdx(h, kind))
            IN /\ Len(r) <= 5
               /\ Len(r) = IF n < 5 THEN n ELSE 5
               /\ \A j \in 1..Len(r) :
                    /\ r[j].type = kind
                    /\ r[j] = h[NthNewest(h, kind, j)]

\* more than five records of one kind, of both bodies, with a record of
\* the other kind among them
C12_Witness ==
    LET h == hist[1][username[1]]
    IN /\ logged_in[1]
       /\ Cardinality(KindIdx(h, "tts")) > 5
       /\ KindIdx(h, "voice_conversion") # {}
       /\ h[1].type = "tts"
       /\ h[1].audio_data # h[Len(h)].audio_data
       /\ h[Len(h)].type = "tts"

\* C13: when the provider call of a synthesize or convert run fails, the
\* function returns None, the run surfaces the error message, appends no
\* record and leaves every history of every session as it was.
C13_ProviderFailureAppendsNothing ==
    [][(last'.op \in Kinds /\ ~last'.ok) =>
         \A s \in Sessions, kind \in Kinds, resp \in Responses :
           (Generate(s, kind, resp) /\ ~resp.ok) =>
             /\ generate_voice(resp) = None
             /\ convert_voice(resp) = None
             /\ last' = Outcome(kind, FALSE, ProviderError(kind))
             /\ hist' = hist]_vars

\* a synthesize call failed for a user who holds a record already
C13_Witness ==
    /\ last = Outcome("tts", FALSE, ProviderError("tts"))
    /\ logged_in[1]
    /\ hist[1][username[1]] # <<>>

\* C14: init_authentication called again in a session whose store is
\* loaded, after any creates and deletes, returns the store the session
\* holds: no record is added, replaced by the default admin or taken from
\* the file, and neither the file nor the directory is touched.
C14_InitIdempotent ==
    [][\A mkdir_ok \in BOOLEAN, rd \in BOOLEAN, wr \in WriteOutcomes :
         ApiInit(mkdir_ok, rd, wr) =>
           /\ init_authentication(session_keys[1], users_dict[1], file, now,
                                  mkdir_ok, rd, wr).ret = users[1]
           /\ users' = users
           /\ users_dict' = users_dict
           /\ session_keys' = session_keys
           /\ file' = file
           /\ wrote' = "none"
           /\ last' = Outcome("init", TRUE, "")]_vars

\* the call was repeated while the readable file held other records than
\* the session's store, which has no user admin
C14_Witness ==
    /\ last = Outcome("init", TRUE, "")
    /\ file.state = "ok"
    /\ file.users # users[1]
    /\ now = 1
    /\ users[1] # EmptyStore
    /\ default_username \notin DOMAIN users[1]

\* the store init_authentication makes when it loads none: one record,
\* username admin, is_admin true
DefaultAdminOnly(t) ==
    [u \in {"admin"} |->
       [username |-> "admin", password_hash |-> hash_password(default_password),
        is_admin |-> TRUE, created_at |-> t]]

FileReadable(rd) == file.state = "ok" /\ rd
FileUnreadable(rd) == file.state # "absent" /\ ~FileReadable(rd)

DirectoryMutation(s) ==
    \/ \E u \in Usernames, p \in Passwords, adm \in BOOLEAN :
         /\ AdminCreate(s, u, p, p, adm)
         /\ u \notin DOMAIN users[s]
    \/ \E u \in Usernames : AdminDelete(s, u)

\* C16: when the file write of a create or delete fails, the operation
\* still returns success and surfaces no error, the store of the session
\* keeps the inserted or removed record, and the durable file keeps the
\* content it had before.
C16_WriteFailureSwallowed ==
    [][\A s \in Sessions :
         (DirectoryMutation(s) /\ wrote' \in {"open_failed", "dump_failed"}) =>
           /\ last'.ok
           /\ last'.msg \in {"User created successfully",
                              "deleted successfully"}
           /\ DOMAIN users'[s] # DOMAIN users[s]
           /\ users_dict'[s] = users'[s]
           /\ file' = file]_vars

HasAdmin(usersD) == \E u \in DOMAIN usersD : usersD[u].is_admin

\* C17: the store of every session that has loaded one holds a record
\* with is_admin true, and so does the durable file whenever it holds a
\* saved store.
C17_AlwaysAnAdmin ==
    /\ \A s \in Sessions : "users" \in session_keys[s] => HasAdmin(users[s])
    /\ file.state = "ok" => HasAdmin(file.users)

\* two sessions hold stores with no admin in common: the first made bob
\* an admin and deleted it again after the second, logged in as bob, had
\* deleted the default admin
C17_Witness ==
    /\ DOMAIN users[1] = {default_username}
    /\ DOMAIN users[2] = {"bob"}
    /\ file.state = "ok"

\* C18: after a create or delete whose file write succeeded the durable
\* file holds exactly the store of the session that made it; a login, a
\* logout, a generation, a rejected create and a delete_user that fails
\* open no file for writing and leave the file as it is.
C18_FileEqualsStoreAfterSave ==
    [][\A s \in Sessions :
         /\ (wrote' = "ok" /\ DirectoryMutation(s)) =>
              file' = [state |-> "ok", users |-> users'[s]]
         /\ (wrote' # "none" \/ file' # file) =>
              ~( \/ \E u \in FormNames, p \in FormPasswords : Login(s, u, p)
                 \/ Exit(s)
                 \/ \E kind \in Kinds, resp \in Responses :
                       Generate(s, kind, resp)
                 \/ \E f \in CreateForms :
                       AdminCreate(s, f.u, f.p, f.c, f.adm) /\ ~last'.ok )
         /\ OnAdminPanel(s) =>
              \A u \in Usernames :
                LET r == delete_user(u, users[s], username[s])
                IN ~r.ok => (~r.saved /\ r.users = users[s])]_vars

\* a create was saved, and the file holds the two records of the store
C18_Witness ==
    /\ last = Outcome("create_user", TRUE, "User created successfully")
    /\ wrote = "ok"
    /\ Cardinality(DOMAIN users[1]) = 2
    /\ file = [state |-> "ok", users |-> users[1]]

\* C19 as claimed: every provider call that returns a 2xx response appends
\* exactly one record of the operation's kind to the history of the
\* session's user, whatever the body, an empty one included.
C19_AppendOnEvery2xx ==
    [][\A s \in Sessions, kind \in Kinds, resp \in Responses :
         (Generate(s, kind, resp) /\ resp.ok) =>
           hist'[s][username[s]] =
             Append(hist[s][username[s]],
                    [type |-> kind, audio_data |-> resp.content])]_vars

\* C19, amended: a provider call that returns a 2xx response with a
\* non-empty body appends exactly one record, of the operation's kind and
\* with that body, to the history of the session's user and changes no
\* other history; a 2xx response with an empty body appends nothing and
\* surfaces nothing.
C19_AppendOnAudio ==
    [][(last'.op \in Kinds /\ last'.ok) =>
         \A s \in Sessions, kind \in Kinds, resp \in Responses :
           (Generate(s, kind, resp) /\ resp.ok) =>
             /\ last' = Outcome(kind, TRUE, "")
             /\ resp.content # "" =>
                  /\ hist'[s][username[s]] =
                       Append(hist[s][username[s]],
                              [type |-> kind, audio_data |-> resp.content])
                  /\ \A u \in Usernames \ {username[s]} :
                       hist'[s][u] = hist[s][u]
                  /\ \A o \in Sessions \ {s} : hist'[o] = hist[o]
             /\ resp.content = "" => hist' = hist]_vars

\* a conversion put its record in the history of the logged-in user
C19_Witness ==
    /\ logged_in[1]
    /\ last = Outcome("voice_conversion", TRUE, "")
    /\ hist[1][username[1]] =
         <<[type |-> "voice_conversion", audio_data |-> "mp3"]>>

\* C20: in a logged-in session the session username is a key of that
\* session's store and the cached is_admin equals the is_admin of that
\* record, whatever was created or deleted since the login.
C20_SessionUserInStore ==
    \A s \in Sessions :
        logged_in[s] =>
          /\ username[s] \in DOMAIN users[s]
          /\ is_admin[s] = users[s][username[s]].is_admin

\* bob is logged in to the second session while the first session, in
\* which the admin deleted bob, and the file have no record of bob
C20_Witness ==
    /\ logged_in[1]
    /\ logged_in[2]
    /\ username[2] = "bob"
    /\ "users" \in session_keys[1]
    /\ "bob" \notin DOMAIN users[1]
    /\ file.state = "ok"
    /\ "bob" \notin DOMAIN file.users

\* C23: no step (login, logout, create, delete, view toggle, generation)
\* modifies a record in place: for every username that is a key of the
\* store of a session before and after the step, the record (username,
\* password_hash, is_admin, created_at) is the same; a record changes only
\* by being deleted and created again.
C23_NoInPlaceChange ==
    [][\A s \in Sessions :
         \A u \in DOMAIN users[s] \cap DOMAIN users'[s] :
             /\ users'[s][u].username = users[s][u].username
             /\ users'[s][u].password_hash = users[s][u].password_hash
             /\ users'[s][u].is_admin = users[s][u].is_admin
             /\ users'[s][u].created_at = users[s][u].created_at]_vars

\* a create went through in a store whose default record it left alone
C23_Witness ==
    /\ last = Outcome("create_user", TRUE, "User created successfully")
    /\ Cardinality(DOMAIN users[1]) = 2
    /\ now = 1
    /\ users[1][default_username] =
         user_record(default_username, default_password, TRUE, 0)

\* C26: in every reachable state where the session is logged in and the
\* admin view is not active the logout action is enabled, whether an
\* account is configured or not and whatever the voice-list fetch
\* returned; from the admin view the return step is enabled, which leads
\* to such a state.
C26_LogoutEnabled ==
    \A s \in Sessions :
        /\ (logged_in[s] /\ ~AdminViewActive(s)) => ENABLED Exit(s)
        /\ AdminViewActive(s) => ENABLED ReturnToMain(s)

\* what a view toggle leaves alone
ViewToggleFrame ==
    UNCHANGED <<logged_in, username, is_admin, users, users_dict, file, hist>>

\* C27: opening the admin panel sets show_admin to true and returning
\* from it sets show_admin to false, and both leave logged_in, the session
\* username, the session is_admin flag, the credential store and every
\* history unchanged.
C27_ViewToggleOnly ==
    [][\A s \in Sessions :
         /\ (last'.op = "open_admin" /\ ControlPanel(s)) =>
               (show_admin'[s] /\ ViewToggleFrame)
         /\ (last'.op = "return" /\ ReturnToMain(s)) =>
               (~show_admin'[s] /\ ViewToggleFrame)]_vars

\* the admin generated a record, opened the panel and returned from it
C27_Witness ==
    /\ last = Outcome("return", TRUE, "")
    /\ logged_in[1] /\ is_admin[1] /\ ~show_admin[1]
    /\ hist[1][username[1]] # <<>>

\* session o holds a record of u that it made itself: in SpecShared a
\* store changes by the creates and deletes of its own session only
CreatedBy(o, u) == u \in DOMAIN users[o] /\ u # default_username

\* C21: with two sessions over the same file, once one session has
\* created username u, a create of u with another password in the other
\* session fails with the duplicate-user error: two sessions never both
\* succeed in creating the same username.
C21_UniqueAcrossSessions ==
    [][\A s \in Sessions, o \in Sessions, u \in Usernames,
          p \in Passwords, adm \in BOOLEAN :
         ( /\ last'.op = "create_user"
           /\ s # o
           /\ CreatedBy(o, u)
           /\ users[o][u].password_hash # hash_password(p)
           /\ AdminCreateRun(s, u, p, p, adm) )
         => last' = Outcome("create_user", FALSE,
                            "Username already exists")]_vars

\* every record made so far is still in the store of the session that
\* made it: no session has deleted anything
NoDeleteYet ==
    Cardinality(DOMAIN users[1]) + Cardinality(DOMAIN users[2]) = 2 + now

\* C22: with two sessions over the same file whose writes all succeed,
\* no update is lost: the file contains every username that some session
\* created and no session deleted, and no username that was deleted after
\* its last creation (one that no session holds any more).
C22_NoLostUpdate ==
    /\ NoDeleteYet =>
          \A s \in Sessions : \A u \in DOMAIN users[s] :
              u \in DOMAIN file.users
    /\ \A u \in DOMAIN file.users :
          \E s \in Sessions : u \in DOMAIN users[s]

\* C24: the history of every user is append-only between deletions of the
\* user: a step leaves it unchanged, or extends it by exactly one record at
\* the end, keeping the earlier records in their order, or empties it
\* because the user was deleted; an append changes only the history of the
\* logged-in username, and login and logout change no history.
C24_HistoryAppendOnly ==
    [][/\ \A s \in Sessions, u \in Usernames :
            \/ hist'[s][u] = hist[s][u]
            \/ /\ Len(hist'[s][u]) = Len(hist[s][u]) + 1
               /\ SubSeq(hist'[s][u], 1, Len(hist[s][u])) = hist[s][u]
               /\ logged_in[s]
               /\ u = username[s]
               /\ \A v \in Usernames \ {u} : hist'[s][v] = hist[s][v]
            \/ /\ hist'[s][u] = <<>>
               /\ u \in DOMAIN users[s]
               /\ u \notin DOMAIN users'[s]
       /\ last'.op \in {"login", "logout"} => hist' = hist]_vars

\* bob generated speech and then converted a voice
C24_Witness ==
    /\ logged_in[1]
    /\ username[1] = "bob"
    /\ last = Outcome("voice_conversion", TRUE, "")
    /\ hist[1]["bob"] = <<[type |-> "tts", audio_data |-> "mp3"],
                          [type |-> "voice_conversion", audio_data |-> "mp3"]>>

\* every history that holds a record belongs to a key of the store
HistoryOnlyOfStored ==
    \A s \in Sessions, u \in Usernames :
        hist[s][u] # <<>> => u \in DOMAIN users[s]

\* C25: in every reachable state of a session a non-empty history exists
\* only for usernames that are keys of the store of the session, and a
\* username that was deleted and is created again starts with an empty
\* history.
C25_HistoryOnlyOfStored ==
    /\ []HistoryOnlyOfStored
    /\ [][\A s \in Sessions, u \in Usernames :
             ( /\ "users" \in session_keys[s]
               /\ u \notin DOMAIN users[s]
               /\ u \in DOMAIN users'[s] ) => hist'[s][u] = <<>>]_vars

\* bob was deleted and created again by an admin who had generated before
C25_Witness ==
    /\ last = Outcome("create_user", TRUE, "User created successfully")
    /\ logged_in[1]
    /\ "bob" \in DOMAIN users[1]
    /\ users[1]["bob"].created_at >= Cardinality(DOMAIN RecentStore)
    /\ hist[1]["bob"] = <<>>
    /\ hist[1][username[1]] # <<>>

====
